---- MODULE Spec2Model ----
(***************************************************************************)
(* A model of the design-system lab: the user-list component               *)
(* (src/components/ds-user-list.js) driving the fetch client               *)
(* (src/services/user-service.js) through its idle/loading/success/error   *)
(* lifecycle, with its derived (filtered, limited) view and its selection  *)
(* event; and the publish/subscribe store (src/store.js), whose setState   *)
(* is modelled call by call, with the stack of calls in progress, because  *)
(* its subscribers run inside it and may call the store again.             *)
(*                                                                         *)
(* Strings that the code inspects character by character (names, the       *)
(* filter) are sequences of one-character strings; opaque strings (status, *)
(* messages, e-mail) are TLA+ strings.  JavaScript's null is Null.         *)
(*                                                                         *)
(* Lit re-renders in a microtask after a reactive property changes, and    *)
(* the browser drains microtasks before it delivers the next user event,   *)
(* so what the user can act on at any event is render() of the current     *)
(* state: render is an operator over the state, and the DOM event handlers *)
(* are guarded by what it shows.                                           *)
(***************************************************************************)
EXTENDS Integers, Sequences, FiniteSets, TLC

\* ------------------------------------------------------------------ bounds
MaxUsers == 2
MaxFilterLen == 2
MaxLimit == 2
MaxFetches == 3
MaxEvents == 1
MaxUpdates == 2
MaxHandles == 2
MaxDepth == 2
MaxCalls == 2
MaxCloses == 3
MaxPresses == 3
MaxNotifications == 6
MaxId == 2
MaxClicks == 3

\* ------------------------------------------------------- program constants
DefaultLimit == 10

Null == "<null>"

\* null where the code holds a User or null
NoUser == [id |-> 0, name |-> <<>>, email |-> Null]

\* ------------------------------------------------------------------ values
Chars == {"A", "a", "b"}

UserPool ==
  { [id |-> 1, name |-> <<"A", "b">>, email |-> "alice@example.com"],
    [id |-> 2, name |-> <<"b">>, email |-> "bob@example.com"] }

SeqsUpTo(S, n) == UNION { [1..k -> S] : k \in 0..n }

Datasets == SeqsUpTo(UserPool, MaxUsers)
Filters == SeqsUpTo(Chars, MaxFilterLen)
LimitValues == (0..MaxLimit) \cup {DefaultLimit}

\* ------------------------------------------------- JavaScript library model
\* String.prototype.toLowerCase, on the alphabet Chars
LowerChar(c) == IF c = "A" THEN "a" ELSE c
toLowerCase(s) == [i \in 1..Len(s) |-> LowerChar(s[i])]

\* String.prototype.includes: t occurs in s at some offset
includes(s, t) ==
  \E k \in 0..(Len(s) - Len(t)) : \A j \in 1..Len(t) : s[k + j] = t[j]

\* slice with the end index taken one too far
slice_OffByOne(s, end) ==
  LET n == Len(s)
      e == IF end + 1 > n THEN n ELSE end + 1
  IN  SubSeq(s, 1, e)

\* Array.prototype.slice(0, end): a negative end counts from the back
slice(s, end) ==
  LET n == Len(s)
      e == IF end < 0 THEN (IF n + end < 0 THEN 0 ELSE n + end)
           ELSE (IF end > n THEN n ELSE end)
  IN  SubSeq(s, 1, e)

\* ------------------------------------------------------------ fetch client
\* What window.fetch does with one GET: its promise resolves with a Response
\* (ok, statusText, a body that parses as JSON or not), rejects (network
\* failure), or stays pending for ever.
Response(ok, statusText, parses, body) ==
  [kind |-> "response", ok |-> ok, statusText |-> statusText,
   parses |-> parses, body |-> body, message |-> ""]

NetworkFailure ==
  [kind |-> "reject", ok |-> FALSE, statusText |-> "", parses |-> FALSE,
   body |-> <<>>, message |-> "Failed to fetch"]

NeverSettles ==
  [kind |-> "never", ok |-> FALSE, statusText |-> "", parses |-> FALSE,
   body |-> <<>>, message |-> ""]

FetchOutcomes ==
  { Response(TRUE, "OK", TRUE, d) : d \in Datasets }
    \cup { Response(TRUE, "OK", FALSE, <<>>),
           Response(FALSE, "Internal Server Error", TRUE, <<>>),
           NetworkFailure, NeverSettles }

Fulfilled(v) == [settled |-> "fulfilled", value |-> v, message |-> ""]
Rejected(m) == [settled |-> "rejected", value |-> <<>>, message |-> m]
Pending == [settled |-> "pending", value |-> <<>>, message |-> ""]

\* getUsers without the response.ok check: any Response is parsed
getUsers_NoOkCheck(o) ==
  CASE o.kind = "never" -> Pending
    [] o.kind = "reject" -> Rejected(o.message)
    [] OTHER -> IF o.parses THEN Fulfilled(o.body)
                ELSE Rejected("Unexpected end of JSON input")

\* getUsers: how the promise it returns settles, given what fetch did
getUsers(o) ==
  CASE o.kind = "never" -> Pending
    [] o.kind = "reject" -> Rejected(o.message)
    [] ~o.ok -> Rejected(o.statusText)
    [] OTHER -> IF o.parses THEN Fulfilled(o.body)
                ELSE Rejected("Unexpected end of JSON input")

\* getUserById without the response.ok check
getUserById_NoOkCheck(id, o) ==
  CASE o.kind = "never" -> Pending
    [] o.kind = "reject" -> Rejected(o.message)
    [] OTHER -> IF o.parses THEN Fulfilled(o.body)
                ELSE Rejected("Unexpected end of JSON input")

\* getUserById: how the promise it returns settles, given what fetch did
getUserById(id, o) ==
  CASE o.kind = "never" -> Pending
    [] o.kind = "reject" -> Rejected(o.message)
    [] ~o.ok -> Rejected(o.statusText)
    [] OTHER -> IF o.parses THEN Fulfilled(o.body)
                ELSE Rejected("Unexpected end of JSON input")

\* the URLs of the two template literals, as the pieces concatenated
BASE_URL == "https://jsonplaceholder.typicode.com"
UsersUrl == <<BASE_URL, "/users">>
UserUrl(id) == <<BASE_URL, "/users/", id>>

\* ------------------------------------------------------ store: values
\* the module's initial _state
InitialState == [selectedUser |-> Null]

\* the partial objects the callers pass to setState ({} is NoFields)
NoFields == <<>>
Partials == { NoFields, [selectedUser |-> "alice"], [theme |-> "light"] }

\* The functions the callers subscribe.  obsA and obsB only look at the
\* state they are given; once calls setState({theme: "dark"}) unless the
\* state it is given has a theme; loop calls it unconditionally; drop calls
\* the unsubscribe function of obsB; add subscribes obsB; boom throws.
Callbacks == {"obsA", "obsB", "once", "loop", "drop", "add", "boom"}

NoCall == [call |-> "none", partial |-> NoFields, fn |-> ""]
CallSetState(p) == [call |-> "setState", partial |-> p, fn |-> ""]
CallSubscribe(fn) == [call |-> "subscribe", partial |-> NoFields, fn |-> fn]
CallUnsubscribe(fn) == [call |-> "unsubscribe", partial |-> NoFields, fn |-> fn]
Throw == [call |-> "throw", partial |-> NoFields, fn |-> ""]

\* what callback c does when it is invoked with the state arg
Body(c, arg) ==
  CASE c = "once" -> IF "theme" \in DOMAIN arg THEN NoCall
                     ELSE CallSetState([theme |-> "dark"])
    [] c = "loop" -> CallSetState([theme |-> "dark"])
    [] c = "drop" -> CallUnsubscribe("obsB")
    [] c = "add" -> CallSubscribe("obsB")
    [] c = "boom" -> Throw
    [] OTHER -> NoCall

\* ---------------------------------------------------------------- state
VARIABLES
  _state,      \* store.js _state: a record, field name -> value
  _listeners,  \* store.js _listeners: the Set, as its values in insertion order
  stack,       \* the setState calls and callbacks in progress, innermost last
  handles,     \* the unsubscribe functions the callers hold: the fn of each
  applied      \* the partials of the setState calls made so far, oldest first

storeVars == <<_state, _listeners, stack, handles, applied>>

VARIABLES
  called       \* the handles the callers have called at least once

VARIABLES
  _users,      \* DsUserList._users: the full fetched dataset
  limit,       \* DsUserList.limit
  _status,     \* DsUserList._status
  _error,      \* DsUserList._error: Null or a message
  _filter,     \* DsUserList._filter
  mounted,     \* whether firstUpdated has run
  inflight,    \* the fetches whose getUsers() promise a _loadUsers call awaits
  fetchCalls,  \* number of getUsers() calls issued so far
  retries,     \* number of clicks taken on the Retry button
  emitted,     \* the ds-user-selected events dispatched, oldest first
  clicks       \* the positions of the cards clicked, oldest first

listVars ==
  <<_users, limit, _status, _error, _filter, mounted, inflight, fetchCalls,
    retries, emitted>>

VARIABLES
  tornDown     \* whether the list element has been removed from the document

VARIABLES
  type,        \* DsAlert.type
  message,     \* DsAlert.message: the pieces concatenated into it
  _visible,    \* DsAlert._visible
  timer,       \* the setTimeout of DsAlert.firstUpdated: unset, pending, fired
  closeEvents  \* the ds-close events the alert has dispatched, oldest first

alertVars == <<type, message, _visible, timer, closeEvents>>

VARIABLES
  variant,     \* DSButton.variant
  disabled,    \* DSButton.disabled
  innerDisabled,  \* the disabled attribute of the inner button, as last rendered
  dsClicks,    \* the ds-click events the button has dispatched, oldest first
  presses      \* the clicks made on the button: by whom, and disabled then

buttonVars == <<variant, disabled, innerDisabled, dsClicks, presses>>

VARIABLES
  _selectedUser,  \* AppShell._selectedUser
  received        \* the ds-user-selected events the shell has handled

shellVars == <<_selectedUser, received>>

VARIABLES
  gets,        \* the URLs the fetch client has requested with GET, oldest first
  settlements  \* the client calls made: operation, fetch outcome, settlement

clientVars == <<gets, settlements>>

VARIABLES
  _count,         \* RawCounter._count
  _step,          \* RawCounter._step
  connected,      \* whether connectedCallback has built the shadow DOM
  countText,      \* what the span with id count shows: <<>> before there is one
  counterEvents,  \* the counter-changed events dispatched, oldest first
  clickLog        \* the clicks made: the button, and the step in force then

counterVars ==
  <<_count, _step, connected, countText, counterEvents, clickLog>>

vars ==
  <<listVars, clicks, storeVars, called, tornDown, alertVars, buttonVars,
    shellVars, clientVars, counterVars>>

\* what the steps of one component leave alone
outsideList ==
  <<storeVars, called, buttonVars, shellVars, clientVars, counterVars>>
outsideStore ==
  <<tornDown, alertVars, buttonVars, shellVars, clientVars, counterVars>>

\* ------------------------------------------------------- JS numbers
\* The numbers the counter computes with are IEEE doubles.  A value of the
\* model is NaN or the integer big * 2^53 + small, with big in -1..1 and
\* small of small magnitude: the integers around 0 and around +-2^53.
Num(n) == [nan |-> FALSE, big |-> 0, small |-> n]
NaN == [nan |-> TRUE, big |-> 0, small |-> 0]
TwoTo53 == [nan |-> FALSE, big |-> 1, small |-> 0]

\* the integers of magnitude up to 2^53, every one of which is a double
IsSafe(v) ==
  /\ ~v.nan
  /\ \/ v.big = 0
     \/ v.big = 1 /\ v.small <= 0
     \/ v.big = -1 /\ v.small >= 0

\* the values the model follows: NaN, and magnitudes below 2^54
InRange(v) == v.nan \/ v.big \in {-1, 0, 1}

\* Between 2^53 and 2^54 the doubles are the even integers: an odd m above
\* 2^53 rounds to the neighbour whose mantissa is even, the multiple of 4.
RoundOdd(m) == IF (m - 1) % 4 = 0 THEN m - 1 ELSE m + 1

\* round to nearest, ties to even, of the integer big * 2^53 + small
Round(big, small) ==
  CASE big = 1 /\ small > 0 /\ small % 2 = 1 ->
         [nan |-> FALSE, big |-> big, small |-> RoundOdd(small)]
    [] big = -1 /\ small < 0 /\ (-small) % 2 = 1 ->
         [nan |-> FALSE, big |-> big, small |-> -RoundOdd(-small)]
    [] OTHER -> [nan |-> FALSE, big |-> big, small |-> small]

\* addition without rounding, as on the integers
ExactPlus(x, y) ==
  IF x.nan \/ y.nan THEN NaN
  ELSE [nan |-> FALSE, big |-> x.big + y.big, small |-> x.small + y.small]

\* x + y and x - y on doubles
Plus(x, y) ==
  IF x.nan \/ y.nan THEN NaN ELSE Round(x.big + y.big, x.small + y.small)

Minus(x, y) ==
  IF x.nan \/ y.nan THEN NaN ELSE Round(x.big - y.big, x.small - y.small)

\* the values given to the step attribute; Null is the attribute removed
StepAttributes == {"2", "-1", "9007199254740992", "abc", Null}

\* Number(value) for an attribute value
Number(value) ==
  CASE value = Null -> Num(0)
    [] value = "" -> Num(0)
    [] value = "1" -> Num(1)
    [] value = "2" -> Num(2)
    [] value = "-1" -> Num(-1)
    [] value = "9007199254740992" -> TwoTo53
    [] OTHER -> NaN

\* the constructors: DsUserList, the store module, DsAlert, DSButton, AppShell,
\* RawCounter
Init ==
  /\ _users = <<>>
  /\ limit = DefaultLimit
  /\ _status = "idle"
  /\ _error = Null
  /\ _filter = <<>>
  /\ mounted = FALSE
  /\ inflight = <<>>
  /\ fetchCalls = 0
  /\ retries = 0
  /\ emitted = <<>>
  /\ clicks = <<>>
  /\ _state = InitialState
  /\ _listeners = <<>>
  /\ stack = <<>>
  /\ handles = <<>>
  /\ applied = <<>>
  /\ called = {}
  /\ tornDown = FALSE
  /\ type = "success"
  /\ message = <<>>
  /\ _visible = TRUE
  /\ timer = "unset"
  /\ closeEvents = <<>>
  /\ variant = "primary"
  /\ disabled = FALSE
  /\ innerDisabled = FALSE
  /\ dsClicks = <<>>
  /\ presses = <<>>
  /\ _selectedUser = NoUser
  /\ received = <<>>
  /\ _count = Num(0)
  /\ _step = Num(1)
  /\ connected = FALSE
  /\ countText = <<>>
  /\ counterEvents = <<>>
  /\ clickLog = <<>>
  /\ gets = <<>>
  /\ settlements = <<>>

\* ------------------------------------------------------- derived view
\* the predicate of _filteredUsers' filter callback
MatchesFilter(user, filter) ==
  includes(toLowerCase(user.name), toLowerCase(filter))

\* the callback with includes' receiver and argument swapped
MatchesFilter_Swapped(user, filter) ==
  includes(toLowerCase(filter), toLowerCase(user.name))

\* the getter with the swapped callback
filteredUsers_Swapped(users, filter, lim) ==
  IF filter = <<>> THEN slice(users, lim)
  ELSE slice(SelectSeq(users, LAMBDA u : MatchesFilter_Swapped(u, filter)), lim)

\* the getter applying the limit before the filter
filteredUsers_TruncateFirst(users, filter, lim) ==
  IF filter = <<>> THEN slice(users, lim)
  ELSE SelectSeq(slice(users, lim), LAMBDA u : MatchesFilter(u, filter))

\* get _filteredUsers, as a function of what it reads
filteredUsers(users, filter, lim) ==
  IF filter = <<>> THEN slice(users, lim)
  ELSE slice(SelectSeq(users, LAMBDA u : MatchesFilter(u, filter)), lim)

_filteredUsers == filteredUsers(_users, _filter, limit)

\* the getter written with splice, which removes what it returns
UsersAfterGetter_Splice(users, filter, lim) ==
  SubSeq(users, Len(slice(users, lim)) + 1, Len(users))

\* the getter sorting before it filters, this._users.sort() by id: sort
\* works in place
UsersAfterGetter_SortInPlace(users, filter, lim) ==
  SelectSeq(users, LAMBDA u : u.id = 1) \o SelectSeq(users, LAMBDA u : u.id # 1)

\* this._users after the getter has run: slice and filter build new arrays
\* and leave their receiver as it was
UsersAfterGetter(users, filter, lim) == users

\* ------------------------------------------------------------- render
Shows(p, alert, retry, filterInput, cards) ==
  [p |-> p, alert |-> alert, retry |-> retry, filterInput |-> filterInput,
   cards |-> cards]

ErrorAlert ==
  <<[type |-> "error", message |-> <<"Error loading users: ", _error>>]>>

\* render with the Retry button also offered while loading
render_RetryWhileLoading ==
  CASE _status = "idle" -> Shows("Pulsa para cargar", <<>>, FALSE, FALSE, <<>>)
    [] _status = "loading" -> Shows("Loading users...", <<>>, TRUE, FALSE, <<>>)
    [] _status = "error" -> Shows("", ErrorAlert, TRUE, FALSE, <<>>)
    [] OTHER -> Shows("", <<>>, FALSE, TRUE, _filteredUsers)

\* render with the Retry button offered in every branch but idle and loading
render_RetryAfterSuccess ==
  CASE _status = "idle" -> Shows("Pulsa para cargar", <<>>, FALSE, FALSE, <<>>)
    [] _status = "loading" -> Shows("Loading users...", <<>>, FALSE, FALSE, <<>>)
    [] _status = "error" -> Shows("", ErrorAlert, TRUE, FALSE, <<>>)
    [] OTHER -> Shows("", <<>>, TRUE, TRUE, _filteredUsers)

\* render with one card per fetched user instead of per entry of the view
render_AllUsers ==
  CASE _status = "idle" -> Shows("Pulsa para cargar", <<>>, FALSE, FALSE, <<>>)
    [] _status = "loading" -> Shows("Loading users...", <<>>, FALSE, FALSE, <<>>)
    [] _status = "error" -> Shows("", ErrorAlert, TRUE, FALSE, <<>>)
    [] OTHER -> Shows("", <<>>, FALSE, TRUE, _users)

\* DsUserList.render: what the shadow DOM holds for the current state
render ==
  CASE _status = "idle" -> Shows("Pulsa para cargar", <<>>, FALSE, FALSE, <<>>)
    [] _status = "loading" -> Shows("Loading users...", <<>>, FALSE, FALSE, <<>>)
    [] _status = "error" -> Shows("", ErrorAlert, TRUE, FALSE, <<>>)
    [] OTHER -> Shows("", <<>>, FALSE, TRUE, _filteredUsers)

\* ------------------------------------------------------------ _loadUsers
RemoveAt(s, i) == SubSeq(s, 1, i - 1) \o SubSeq(s, i + 1, Len(s))

\* _loadUsers up to its await: status := loading, getUsers() is called and
\* fetch will do o with the GET
LoadUsersStart(o) ==
  /\ _status' = "loading"
  /\ fetchCalls' = fetchCalls + 1
  /\ inflight' = Append(inflight, o)

\* the try branch also resetting this._error to null
AfterAwait_ClearsError(r) ==
  IF r.settled = "fulfilled"
  THEN /\ _users' = r.value
       /\ _status' = "success"
       /\ _error' = Null
  ELSE /\ _error' = r.message
       /\ _status' = "error"
       /\ UNCHANGED _users

\* the try/catch after the await, for the promise settled as r
AfterAwait(r) ==
  IF r.settled = "fulfilled"
  THEN /\ _users' = r.value
       /\ _status' = "success"
       /\ UNCHANGED _error
  ELSE /\ _error' = r.message
       /\ _status' = "error"
       /\ UNCHANGED _users

\* _loadUsers resumed with the limit applied to the stored dataset
LoadUsersResume_LimitOnLoad(i) ==
  /\ i \in DOMAIN inflight
  /\ getUsers(inflight[i]).settled # "pending"
  /\ LET r == getUsers(inflight[i])
     IN  IF r.settled = "fulfilled"
         THEN /\ _users' = slice(r.value, limit)
              /\ _status' = "success"
              /\ UNCHANGED _error
         ELSE AfterAwait(r)
  /\ inflight' = RemoveAt(inflight, i)
  /\ UNCHANGED <<limit, _filter, mounted, fetchCalls, retries, emitted>>

\* _loadUsers resumed with a catch that reports a fixed message
LoadUsersResume_GenericMessage(i) ==
  /\ i \in DOMAIN inflight
  /\ getUsers(inflight[i]).settled # "pending"
  /\ LET r == getUsers(inflight[i])
     IN  IF r.settled = "fulfilled" THEN AfterAwait(r)
         ELSE AfterAwait(Rejected("Something went wrong"))
  /\ inflight' = RemoveAt(inflight, i)
  /\ UNCHANGED <<limit, _filter, mounted, fetchCalls, retries, emitted>>

\* _loadUsers resumed with a catch that calls _loadUsers again
LoadUsersResume_AutoRetry(i) ==
  /\ i \in DOMAIN inflight
  /\ getUsers(inflight[i]).settled # "pending"
  /\ LET r == getUsers(inflight[i])
     IN  IF r.settled = "fulfilled"
         THEN /\ AfterAwait(r)
              /\ inflight' = RemoveAt(inflight, i)
              /\ UNCHANGED fetchCalls
         ELSE /\ fetchCalls < MaxFetches
              /\ _error' = r.message
              /\ UNCHANGED _users
              /\ \E o \in FetchOutcomes :
                   /\ _status' = "loading"
                   /\ fetchCalls' = fetchCalls + 1
                   /\ inflight' = Append(RemoveAt(inflight, i), o)
  /\ UNCHANGED <<limit, _filter, mounted, retries, emitted>>

\* _loadUsers resumed by a timeout when the promise is still pending
LoadUsersResume_Timeout(i) ==
  /\ i \in DOMAIN inflight
  /\ LET r == getUsers(inflight[i])
     IN  IF r.settled = "pending" THEN AfterAwait(Rejected("Timeout"))
         ELSE AfterAwait(r)
  /\ inflight' = RemoveAt(inflight, i)
  /\ UNCHANGED <<limit, _filter, mounted, fetchCalls, retries, emitted>>

\* _loadUsers resumed: the awaited promise of in-flight fetch i has settled
LoadUsersResume(i) ==
  /\ i \in DOMAIN inflight
  /\ getUsers(inflight[i]).settled # "pending"
  /\ AfterAwait(getUsers(inflight[i]))
  /\ inflight' = RemoveAt(inflight, i)
  /\ UNCHANGED <<limit, _filter, mounted, fetchCalls, retries, emitted>>

\* ------------------------------------------------------------- handlers
\* firstUpdated calling _loadUsers twice
firstUpdated_LoadsTwice ==
  /\ ~mounted
  /\ mounted' = TRUE
  /\ \E o1, o2 \in FetchOutcomes :
       /\ _status' = "loading"
       /\ fetchCalls' = fetchCalls + 2
       /\ inflight' = inflight \o <<o1, o2>>
  /\ UNCHANGED <<_users, limit, _error, _filter, retries, emitted>>

\* firstUpdated: Lit calls it once, after the first render
firstUpdated ==
  /\ ~mounted
  /\ mounted' = TRUE
  /\ \E o \in FetchOutcomes : LoadUsersStart(o)
  /\ UNCHANGED <<_users, limit, _error, _filter, retries, emitted>>

\* click on the rendered Retry button: @click=${this._loadUsers}
RetryClick ==
  /\ render.retry
  /\ fetchCalls < MaxFetches
  /\ retries' = retries + 1
  /\ \E o \in FetchOutcomes : LoadUsersStart(o)
  /\ UNCHANGED <<_users, limit, _error, _filter, mounted, emitted>>

\* the filter input's handler also starting a load
FilterInput_Refetch(v) ==
  /\ render.filterInput
  /\ fetchCalls < MaxFetches
  /\ _filter' = v
  /\ \E o \in FetchOutcomes : LoadUsersStart(o)
  /\ UNCHANGED <<_users, limit, _error, mounted, retries, emitted>>

\* input event on the rendered filter box: this._filter = e.target.value
FilterInput(v) ==
  /\ render.filterInput
  /\ _filter' = v
  /\ UNCHANGED <<_users, limit, _status, _error, mounted, inflight,
                 fetchCalls, retries, emitted>>

\* the values e.target.value can have after one edit of the filter box that
\* holds cur: a character typed at the end, the last character deleted, or
\* the box cleared (every filter in Filters is reached by such edits)
InputValues(cur) ==
  { f \in Filters : Len(f) = Len(cur) + 1 /\ SubSeq(f, 1, Len(cur)) = cur }
    \cup { SubSeq(cur, 1, Len(cur) - 1), <<>> }

\* one edit of the rendered filter box
FilterEdit == \E v \in InputValues(_filter) : FilterInput(v)

\* a limit change that also starts a load
SetLimit_Refetch(n) ==
  /\ limit' = n
  /\ fetchCalls < MaxFetches
  /\ \E o \in FetchOutcomes : LoadUsersStart(o)
  /\ UNCHANGED <<_users, _error, _filter, mounted, retries, emitted>>

\* the consumer sets the public limit property
SetLimit(n) ==
  /\ limit' = n
  /\ UNCHANGED <<_users, _status, _error, _filter, mounted, inflight,
                 fetchCalls, retries, emitted>>

\* _selectUser dispatching the event twice
SelectUser_Twice(user) ==
  /\ emitted' = emitted \o
       << [type |-> "ds-user-selected", detail |-> [user |-> user]],
          [type |-> "ds-user-selected", detail |-> [user |-> user]] >>
  /\ UNCHANGED <<_users, limit, _status, _error, _filter, mounted, inflight,
                 fetchCalls, retries>>

\* _selectUser: dispatches ds-user-selected with detail { user }
SelectUser(user) ==
  /\ emitted' = Append(emitted, [type |-> "ds-user-selected",
                                 detail |-> [user |-> user]])
  /\ UNCHANGED <<_users, limit, _status, _error, _filter, mounted, inflight,
                 fetchCalls, retries>>

\* click on the k-th rendered card: @click=${() => this._selectUser(user)}
CardClick(k) ==
  /\ k \in DOMAIN render.cards
  /\ Len(emitted) < MaxEvents
  /\ SelectUser(render.cards[k])

\* a render pass in status success reads the getter
ReadView ==
  /\ _status = "success"
  /\ _users' = UsersAfterGetter(_users, _filter, limit)
  /\ UNCHANGED <<limit, _status, _error, _filter, mounted, inflight,
                 fetchCalls, retries, emitted>>

\* ------------------------------------------------------------- DsAlert
\* the values the consumers give the public properties
AlertTypes == {"success", "error", "warning", "info"}
AlertMessages == { <<>>, <<"Saved">>, <<"Careful">> }

\* render's icons map, by the name of the glyph; a type that is no key of
\* it gives undefined
icons(t) ==
  CASE t = "success" -> "check"
    [] t = "error" -> "cross"
    [] t = "warning" -> "warning-sign"
    [] OTHER -> "undefined"

\* html``
Nothing == <<>>

\* DsAlert.render with the content kept when the alert is not visible
DsAlert_render_Always ==
  <<[class |-> <<"alert", type>>, text |-> <<icons(type), " ", message>>,
     closeBtn |-> TRUE]>>

\* DsAlert.render
DsAlert_render ==
  IF ~_visible THEN Nothing
  ELSE <<[class |-> <<"alert", type>>, text |-> <<icons(type), " ", message>>,
         closeBtn |-> TRUE]>>

\* new CustomEvent("ds-close", { bubbles: true, composed: true })
CloseEvent ==
  [type |-> "ds-close", detail |-> Null, bubbles |-> TRUE, composed |-> TRUE]

\* _close flipping _visible
_close_Toggle ==
  /\ _visible' = ~_visible
  /\ closeEvents' = Append(closeEvents, CloseEvent)

\* _close hiding the alert without dispatching
_close_NoEvent ==
  /\ _visible' = FALSE
  /\ closeEvents' = closeEvents

\* DsAlert._close
_close ==
  /\ _visible' = FALSE
  /\ closeEvents' = Append(closeEvents, CloseEvent)

\* firstUpdated starting no timer
DsAlert_firstUpdated_NoTimer ==
  /\ timer = "unset"
  /\ timer' = "none"
  /\ UNCHANGED <<type, message, _visible, closeEvents>>

\* DsAlert.firstUpdated: Lit calls it once, after the first render of the
\* connected element; it starts the 5000 ms timer
DsAlert_firstUpdated ==
  /\ timer = "unset"
  /\ timer' = "pending"
  /\ UNCHANGED <<type, message, _visible, closeEvents>>

\* the timer's callback naming _close without calling it: () => this._close
TimerFires_NoCall ==
  /\ timer = "pending"
  /\ timer' = "fired"
  /\ UNCHANGED <<type, message, _visible, closeEvents>>

\* the timer's callback runs: () => this._close()
TimerFires ==
  /\ timer = "pending"
  /\ timer' = "fired"
  /\ _close
  /\ UNCHANGED <<type, message>>

\* click on the rendered close button: @click=${this._close}
CloseClick ==
  /\ timer # "unset"
  /\ DsAlert_render # Nothing
  /\ _close
  /\ UNCHANGED <<type, message, timer>>

\* _close() called by code that holds the element
CloseCall ==
  /\ Len(closeEvents) < MaxCloses
  /\ _close
  /\ UNCHANGED <<type, message, timer>>

\* the consumer sets a public property
SetType(t) ==
  /\ type' = t
  /\ UNCHANGED <<message, _visible, timer, closeEvents>>

SetMessage(m) ==
  /\ message' = m
  /\ UNCHANGED <<type, _visible, timer, closeEvents>>

\* ------------------------------------- the list with its child elements
\* The list's render commits after the step.  The error template holds a
\* ds-alert: entering status error creates one (constructor, type="error",
\* the message binding, and its own first update with firstUpdated, all
\* before the next event), staying in error keeps the element and updates
\* the binding, leaving error removes it.  A removed alert's timer still
\* fires, on an element nobody can see or hear: it is dropped here, and the
\* alert variables go back to what the next constructor sets.  In a list
\* removed from the document a new alert is never connected, so it is not
\* updated and starts no timer.
CommitAlert ==
  IF _status' = "error" /\ _status # "error"
  THEN /\ type' = "error"
       /\ message' = <<"Error loading users: ", _error'>>
       /\ _visible' = TRUE
       /\ timer' = IF tornDown THEN "unset" ELSE "pending"
       /\ closeEvents' = <<>>
  ELSE IF _status' = "error"
  THEN /\ message' = <<"Error loading users: ", _error'>>
       /\ UNCHANGED <<type, _visible, timer, closeEvents>>
  ELSE IF _status = "error"
  THEN /\ type' = "success"
       /\ message' = <<>>
       /\ _visible' = TRUE
       /\ timer' = "unset"
       /\ closeEvents' = <<>>
  ELSE UNCHANGED alertVars

\* removal that aborts the fetches in flight
Teardown_Abort ==
  /\ mounted
  /\ ~tornDown
  /\ inflight # <<>>
  /\ tornDown' = TRUE
  /\ inflight' = <<>>
  /\ UNCHANGED <<_users, limit, _status, _error, _filter, mounted,
                 fetchCalls, retries, emitted>>

\* The list element is removed from the document while a fetch is in
\* flight.  DsUserList has no disconnectedCallback: nothing of its state
\* changes and the promise it awaits is left alone.  (A removal with no
\* fetch in flight leaves nothing that could still run, and is not a step
\* of the model.)
Teardown ==
  /\ mounted
  /\ ~tornDown
  /\ inflight # <<>>
  /\ tornDown' = TRUE
  /\ UNCHANGED listVars

\* the user can act only on an element that is in the document
Next ==
  \/ firstUpdated /\ CommitAlert /\ UNCHANGED <<clicks, tornDown, outsideList>>
  \/ \E i \in 1..MaxFetches :
       LoadUsersResume(i) /\ CommitAlert
         /\ UNCHANGED <<clicks, tornDown, outsideList>>
  \/ ~tornDown /\ RetryClick /\ CommitAlert
       /\ UNCHANGED <<clicks, tornDown, outsideList>>
  \/ ~tornDown /\ FilterEdit
       /\ UNCHANGED <<clicks, tornDown, alertVars, outsideList>>
  \/ \E n \in LimitValues :
       SetLimit(n) /\ UNCHANGED <<clicks, tornDown, alertVars, outsideList>>
  \/ \E k \in 1..MaxUsers :
       ~tornDown /\ CardClick(k) /\ clicks' = Append(clicks, k)
         /\ UNCHANGED <<tornDown, alertVars, outsideList>>
  \/ ReadView /\ UNCHANGED <<clicks, tornDown, alertVars, outsideList>>
  \/ Teardown /\ UNCHANGED <<clicks, alertVars, outsideList>>
  \/ ~tornDown /\ CloseClick
       /\ UNCHANGED <<listVars, clicks, tornDown, outsideList>>
  \/ TimerFires /\ UNCHANGED <<listVars, clicks, tornDown, outsideList>>

Spec == Init /\ [][Next]_vars

\* ===================================================================
\* The publish/subscribe store (src/store.js)
\* ===================================================================
Range(s) == { s[i] : i \in DOMAIN s }

\* the state setState replaces _state by when it forgets the old fields
Merge_Replace(s, p) == p

\* { ...s, ...p }: p's fields over s's
Merge(s, p) ==
  [f \in DOMAIN s \cup DOMAIN p |-> IF f \in DOMAIN p THEN p[f] ELSE s[f]]

\* getState(): the current _state
getState == _state

\* registration in an array, with push: a value is added every time
SetAdd_Push(ls, fn) == Append(ls, fn)

\* Set.prototype.add: a value already in the set is not added again
SetAdd(ls, fn) == IF fn \in Range(ls) THEN ls ELSE Append(ls, fn)

\* removal as an array would do it, ls.splice(ls.indexOf(fn), 1): with fn
\* absent indexOf is -1 and the last entry goes
SetDelete_Splice(ls, fn) ==
  IF fn \in Range(ls) THEN SelectSeq(ls, LAMBDA x : x # fn)
  ELSE SubSeq(ls, 1, Len(ls) - 1)

\* Set.prototype.delete: the others keep their order
SetDelete(ls, fn) == SelectSeq(ls, LAMBDA x : x # fn)

\* the position of fn in ls, 0 when it is absent
PositionOf(ls, fn) ==
  IF fn \in Range(ls) THEN CHOOSE i \in DOMAIN ls : ls[i] = fn ELSE 0

\* A call of setState in progress: k is the position in _listeners that its
\* forEach visits next.  merged, atCall, invoked and clean record, for the
\* properties, the state the call merged, the listeners at the call, the
\* invocations it has made, and whether no callback has called the store
\* since the call began.
SetStateFrame(merged, atCall) ==
  [op |-> "setState", k |-> 1, fn |-> "", arg |-> NoFields, ran |-> FALSE,
   merged |-> merged, atCall |-> atCall, invoked |-> <<>>, clean |-> TRUE]

\* A callback in progress: fn invoked with arg; ran says that its call of
\* setState has been made (and has yet to return).
CallbackFrame(fn, arg) ==
  [op |-> "callback", k |-> 0, fn |-> fn, arg |-> arg, ran |-> FALSE,
   merged |-> NoFields, atCall |-> <<>>, invoked |-> <<>>, clean |-> TRUE]

Top == stack[Len(stack)]
Pop(stk) == SubSeq(stk, 1, Len(stk) - 1)
Depth(stk) == Cardinality({ i \in DOMAIN stk : stk[i].op = "setState" })

\* the calls in progress, marked as having had the store called under them
Dirty(stk) ==
  [i \in DOMAIN stk |->
     IF stk[i].op = "setState" THEN [stk[i] EXCEPT !.clean = FALSE]
     ELSE stk[i]]

\* the forEach loops in progress after the entry at position j is deleted:
\* Set iteration goes on with the entry that followed it
AfterDelete(stk, j) ==
  [i \in DOMAIN stk |->
     IF stk[i].op = "setState" /\ j > 0 /\ stk[i].k > j
     THEN [stk[i] EXCEPT !.k = @ - 1]
     ELSE stk[i]]

\* setState that returns early when the partial changes no field
setState_SkipUnchanged(newState, stk) ==
  /\ _state' = Merge(_state, newState)
  /\ applied' = Append(applied, newState)
  /\ stack' = IF Merge(_state, newState) = _state THEN stk
              ELSE Append(stk, SetStateFrame(Merge(_state, newState), _listeners))
  /\ UNCHANGED <<_listeners, handles>>

\* setState that does not notify when called during a notification
setState_NoNestedNotify(newState, stk) ==
  /\ _state' = Merge(_state, newState)
  /\ applied' = Append(applied, newState)
  /\ stack' = IF stk # <<>> THEN stk
              ELSE Append(stk, SetStateFrame(Merge(_state, newState), _listeners))
  /\ UNCHANGED <<_listeners, handles>>

\* setState(newState), called with stk the calls in progress: it merges and
\* starts _listeners.forEach
setState(newState, stk) ==
  /\ _state' = Merge(_state, newState)
  /\ applied' = Append(applied, newState)
  /\ stack' = Append(stk, SetStateFrame(Merge(_state, newState), _listeners))
  /\ UNCHANGED <<_listeners, handles>>

\* subscribe that also calls the new subscriber with the current state
subscribe_NotifyNow(fn, stk) ==
  /\ _listeners' = SetAdd(_listeners, fn)
  /\ stack' = Append(stk, CallbackFrame(fn, _state))
  /\ UNCHANGED <<_state, applied>>

\* subscribe(fn), up to its return: _listeners.add(fn)
subscribe(fn, stk) ==
  /\ _listeners' = SetAdd(_listeners, fn)
  /\ stack' = stk
  /\ UNCHANGED <<_state, applied>>

\* the returned function emptying the set
unsubscribe_Clear(fn, stk) ==
  /\ _listeners' = <<>>
  /\ stack' = stk
  /\ UNCHANGED <<_state, applied>>

\* the function subscribe(fn) returned: _listeners.delete(fn)
unsubscribe(fn, stk) ==
  /\ _listeners' = SetDelete(_listeners, fn)
  /\ stack' = AfterDelete(stk, PositionOf(_listeners, fn))
  /\ UNCHANGED <<_state, applied>>

\* --- calls made by the store's users, between notifications
SetState(p) ==
  /\ stack = <<>>
  /\ Len(applied) < MaxUpdates
  /\ setState(p, stack)

Subscribe(fn) ==
  /\ stack = <<>>
  /\ Len(handles) < MaxHandles
  /\ subscribe(fn, stack)
  /\ handles' = Append(handles, fn)

Unsubscribe(h) ==
  /\ stack = <<>>
  /\ h \in DOMAIN handles
  /\ unsubscribe(handles[h], stack)
  /\ called' = called \cup {h}
  /\ UNCHANGED handles

\* --- the steps of a setState call in progress
\* iteration over a copy of the set taken when setState was called
Notify_Snapshot ==
  /\ stack # <<>>
  /\ Top.op = "setState"
  /\ Len(Top.invoked) < Len(Top.atCall)
  /\ LET fn == Top.atCall[Len(Top.invoked) + 1]
         me == [Top EXCEPT !.k = @ + 1,
                           !.invoked = Append(@, <<fn, _state>>)]
     IN  stack' = Append(Append(Pop(stack), me), CallbackFrame(fn, _state))
  /\ UNCHANGED <<_state, _listeners, handles, applied>>

\* forEach passing the state that this setState call merged, kept in a local
Notify_MergedState ==
  /\ stack # <<>>
  /\ Top.op = "setState"
  /\ Top.k <= Len(_listeners)
  /\ LET fn == _listeners[Top.k]
         me == [Top EXCEPT !.k = @ + 1,
                           !.invoked = Append(@, <<fn, Top.merged>>)]
     IN  stack' = Append(Append(Pop(stack), me), CallbackFrame(fn, Top.merged))
  /\ UNCHANGED <<_state, _listeners, handles, applied>>

\* forEach invokes the next listener with _state
Notify ==
  /\ stack # <<>>
  /\ Top.op = "setState"
  /\ Top.k <= Len(_listeners)
  /\ LET fn == _listeners[Top.k]
         me == [Top EXCEPT !.k = @ + 1,
                           !.invoked = Append(@, <<fn, _state>>)]
     IN  stack' = Append(Append(Pop(stack), me), CallbackFrame(fn, _state))
  /\ UNCHANGED <<_state, _listeners, handles, applied>>

\* forEach has visited every listener: setState returns
Return ==
  /\ stack # <<>>
  /\ Top.op = "setState"
  /\ Top.k > Len(_listeners)
  /\ stack' = Pop(stack)
  /\ UNCHANGED <<_state, _listeners, handles, applied>>

\* What is left of the calls in progress when callback fn throws under the
\* setState call frame: neither forEach, nor setState, nor any callback of
\* the pool catches, so every call in progress is abandoned and the error
\* is on its way to the store's user.  The record keeps what the innermost
\* setState call had done.
Thrown(frame, fn) == [frame EXCEPT !.op = "thrown", !.fn = fn]

\* a forEach callback wrapped in try/catch: the error is swallowed and the
\* pass goes on
CallbackRun_CatchAndContinue ==
  /\ stack # <<>>
  /\ Top.op = "callback"
  /\ ~Top.ran
  /\ LET b == Body(Top.fn, Top.arg)
     IN  CASE b.call = "setState" ->
                /\ Depth(stack) < MaxDepth
                /\ setState(b.partial,
                            Dirty(Append(Pop(stack), [Top EXCEPT !.ran = TRUE])))
           [] b.call = "subscribe" ->
                /\ subscribe(b.fn, Dirty(Pop(stack)))
                /\ UNCHANGED handles
           [] b.call = "unsubscribe" ->
                /\ unsubscribe(b.fn, Dirty(Pop(stack)))
                /\ UNCHANGED handles
           [] OTHER ->
                /\ stack' = Pop(stack)
                /\ UNCHANGED <<_state, _listeners, handles, applied>>

\* the invoked callback runs: it returns, throws, or calls the store first
CallbackRun ==
  /\ stack # <<>>
  /\ Top.op = "callback"
  /\ ~Top.ran
  /\ LET b == Body(Top.fn, Top.arg)
     IN  CASE b.call = "setState" ->
                /\ Depth(stack) < MaxDepth
                /\ setState(b.partial,
                            Dirty(Append(Pop(stack), [Top EXCEPT !.ran = TRUE])))
           [] b.call = "subscribe" ->
                /\ subscribe(b.fn, Dirty(Pop(stack)))
                /\ UNCHANGED handles
           [] b.call = "unsubscribe" ->
                /\ unsubscribe(b.fn, Dirty(Pop(stack)))
                /\ UNCHANGED handles
           [] b.call = "throw" ->
                /\ stack' = <<Thrown(stack[Len(stack) - 1], Top.fn)>>
                /\ UNCHANGED <<_state, _listeners, handles, applied>>
           [] OTHER ->
                /\ stack' = Pop(stack)
                /\ UNCHANGED <<_state, _listeners, handles, applied>>

\* the callback's call of setState has returned: the callback returns
CallbackReturn ==
  /\ stack # <<>>
  /\ Top.op = "callback"
  /\ Top.ran
  /\ stack' = Pop(stack)
  /\ UNCHANGED <<_state, _listeners, handles, applied>>

\* the error reaches the store's user, the caller of the outermost setState
ErrorReachesCaller ==
  /\ stack # <<>>
  /\ Top.op = "thrown"
  /\ stack' = <<>>
  /\ UNCHANGED <<_state, _listeners, handles, applied>>

StoreNext ==
  \/ \E p \in Partials : SetState(p) /\ UNCHANGED <<listVars, clicks, called, outsideStore>>
  \/ \E fn \in Callbacks : Subscribe(fn) /\ UNCHANGED <<listVars, clicks, called, outsideStore>>
  \/ \E h \in 1..MaxHandles : Unsubscribe(h) /\ UNCHANGED <<listVars, clicks, outsideStore>>
  \/ Notify /\ UNCHANGED <<listVars, clicks, called, outsideStore>>
  \/ Return /\ UNCHANGED <<listVars, clicks, called, outsideStore>>
  \/ CallbackRun /\ UNCHANGED <<listVars, clicks, called, outsideStore>>
  \/ CallbackReturn /\ UNCHANGED <<listVars, clicks, called, outsideStore>>
  \/ ErrorReachesCaller /\ UNCHANGED <<listVars, clicks, called, outsideStore>>

SpecStore == Init /\ [][StoreNext]_vars

\* ===================================================================
\* The fetch client called on its own (src/services/user-service.js)
\* ===================================================================
outsideClient ==
  <<listVars, clicks, storeVars, called, tornDown, alertVars, buttonVars, shellVars,
    counterVars>>

\* what fetch can do with GET /users: as for the list, and a failure status
\* with an empty status text (HTTP/2 responses carry none)
ListOutcomes == FetchOutcomes \cup { Response(FALSE, "", TRUE, <<>>) }

\* what fetch can do with GET /users/<id> when a Response arrives: the user,
\* a body that does not parse, a failure status with or without text
UserResponses ==
  UNION { { Response(TRUE, "OK", TRUE, u), Response(TRUE, "OK", FALSE, u),
            Response(FALSE, "Not Found", TRUE, u),
            Response(FALSE, "", TRUE, u) } : u \in UserPool }

\* one call of a client operation: fetch(url) is called once, and the
\* promise the operation returns settles as r
ClientCall(op, id, url, o, r) ==
  /\ Len(settlements) < MaxCalls
  /\ gets' = Append(gets, url)
  /\ settlements' =
       Append(settlements, [op |-> op, id |-> id, outcome |-> o, result |-> r])

GetUsersCall == \E o \in ListOutcomes :
  ClientCall("getUsers", 0, UsersUrl, o, getUsers(o))

GetUserByIdCall == \E id \in 1..MaxId :
  \/ \E o \in UserResponses :
       ClientCall("getUserById", id, UserUrl(id), o, getUserById(id, o))
  \/ \E o \in {NetworkFailure, NeverSettles} :
       ClientCall("getUserById", id, UserUrl(id), o, getUserById(id, o))

ClientNext ==
  \/ GetUsersCall /\ UNCHANGED outsideClient
  \/ GetUserByIdCall /\ UNCHANGED outsideClient

SpecClient == Init /\ [][ClientNext]_vars

\* ===================================================================
\* The alert on its own (src/components/ds-alert.js)
\* ===================================================================
outsideAlert ==
  <<listVars, clicks, storeVars, called, tornDown, buttonVars, shellVars, clientVars,
    counterVars>>

AlertNext ==
  \/ DsAlert_firstUpdated /\ UNCHANGED outsideAlert
  \/ \E t \in AlertTypes : SetType(t) /\ UNCHANGED outsideAlert
  \/ \E m \in AlertMessages : SetMessage(m) /\ UNCHANGED outsideAlert
  \/ CloseClick /\ UNCHANGED outsideAlert
  \/ TimerFires /\ UNCHANGED outsideAlert
  \/ CloseCall /\ UNCHANGED outsideAlert

SpecAlert == Init /\ [][AlertNext]_vars

\* the event loop runs the callback of a timer that is due
SpecAlertFair == SpecAlert /\ WF_vars(TimerFires /\ UNCHANGED outsideAlert)

\* ===================================================================
\* The button on its own (src/components/ds-button.js)
\* ===================================================================
outsideButton ==
  <<listVars, clicks, storeVars, called, tornDown, alertVars, shellVars, clientVars,
    counterVars>>

Variants == {"primary", "secondary", "danger"}

\* new CustomEvent("ds-click", { bubbles: true, composed: true })
ClickEvent ==
  [type |-> "ds-click", detail |-> Null, bubbles |-> TRUE, composed |-> TRUE]

\* _handleClick without its guard
_handleClick_NoGuard == dsClicks' = Append(dsClicks, ClickEvent)

\* DSButton._handleClick
_handleClick ==
  IF disabled THEN dsClicks' = dsClicks
  ELSE dsClicks' = Append(dsClicks, ClickEvent)

\* the press recorded: who made it, what this.disabled was, and whether
\* the browser delivered a click event to the handler
Press(by, delivered) ==
  /\ Len(presses) < MaxPresses
  /\ presses' = Append(presses, [by |-> by, disabled |-> disabled,
                                 delivered |-> delivered])

\* the consumer sets a public property; Lit renders later, in a microtask
SetDisabled(b) ==
  /\ disabled' = b
  /\ UNCHANGED <<variant, innerDisabled, dsClicks, presses>>

SetVariant(v) ==
  /\ variant' = v
  /\ UNCHANGED <<disabled, innerDisabled, dsClicks, presses>>

\* the pending update runs: ?disabled=${this.disabled}
ButtonUpdate ==
  /\ innerDisabled # disabled
  /\ innerDisabled' = disabled
  /\ UNCHANGED <<variant, disabled, dsClicks, presses>>

\* click() on the inner <button>: a disabled button gets no click event;
\* otherwise @click=${this._handleClick} runs
ClickInner(by) ==
  IF innerDisabled
  THEN Press(by, FALSE) /\ dsClicks' = dsClicks
  ELSE Press(by, TRUE) /\ _handleClick

\* the user clicks the button: no update is pending at a user event
UserClick ==
  /\ innerDisabled = disabled
  /\ ClickInner("user")
  /\ UNCHANGED <<variant, disabled, innerDisabled>>

\* code calls click() on the inner button, possibly before the update that
\* follows a change of disabled
ProgramClick ==
  /\ ClickInner("click()")
  /\ UNCHANGED <<variant, disabled, innerDisabled>>

\* code calls _handleClick() on the element
HandlerCall ==
  /\ Press("_handleClick()", TRUE)
  /\ _handleClick
  /\ UNCHANGED <<variant, disabled, innerDisabled>>

ButtonNext ==
  \/ \E b \in BOOLEAN : SetDisabled(b) /\ UNCHANGED outsideButton
  \/ \E v \in Variants : SetVariant(v) /\ UNCHANGED outsideButton
  \/ ButtonUpdate /\ UNCHANGED outsideButton
  \/ UserClick /\ UNCHANGED outsideButton
  \/ ProgramClick /\ UNCHANGED outsideButton
  \/ HandlerCall /\ UNCHANGED outsideButton

SpecButton == Init /\ [][ButtonNext]_vars

\* ===================================================================
\* The root shell on its own (unnamed/part_000)
\* ===================================================================
outsideShell ==
  <<listVars, clicks, storeVars, called, tornDown, alertVars, buttonVars, clientVars,
    counterVars>>

\* the events DsUserList._selectUser dispatches, which bubble to the shell
UserSelectedEvents ==
  { [type |-> "ds-user-selected", detail |-> [user |-> u]] : u \in UserPool }

\* the handler deselecting a user that is selected again
_onUserSelected_Toggle(e) ==
  /\ _selectedUser' = IF _selectedUser = e.detail.user THEN NoUser
                      ELSE e.detail.user
  /\ received' = Append(received, e)

\* AppShell._onUserSelected, run by @ds-user-selected on the list
_onUserSelected(e) ==
  /\ _selectedUser' = e.detail.user
  /\ received' = Append(received, e)

OnUserSelected ==
  /\ Len(received) < MaxNotifications
  /\ \E e \in UserSelectedEvents : _onUserSelected(e)

ShellNext == OnUserSelected /\ UNCHANGED outsideShell

SpecShell == Init /\ [][ShellNext]_vars

\* ------------------------------------------------------------- RawCounter
outsideCounter ==
  <<listVars, clicks, storeVars, called, tornDown, alertVars, buttonVars,
    shellVars, clientVars>>

observedAttributes == {"step"}

\* attributeChangedCallback(name, oldValue, newValue)
attributeChangedCallback(name, newValue) ==
  /\ _step' = IF name = "step" THEN Number(newValue) ELSE _step
  /\ UNCHANGED <<_count, connected, countText, counterEvents, clickLog>>

\* connectedCallback: the shadow DOM is written, with _count in the span, and
\* the two buttons get their click listeners
connectedCallback ==
  /\ ~connected
  /\ connected' = TRUE
  /\ countText' = <<_count>>
  /\ UNCHANGED <<_count, _step, counterEvents, clickLog>>

CounterChanged(value) ==
  [type |-> "counter-changed", detail |-> [value |-> value],
   bubbles |-> TRUE, composed |-> TRUE]

\* _updateView(), with count the value of this._count
_updateView(count) == countText' = <<count>>

_increment ==
  /\ _count' = Plus(_count, _step)
  /\ _updateView(_count')
  /\ counterEvents' = Append(counterEvents, CounterChanged(_count'))

\* a decrement pasted from _increment with the += left in
_decrement_Adds ==
  /\ _count' = Plus(_count, _step)
  /\ _updateView(_count')
  /\ counterEvents' = Append(counterEvents, CounterChanged(_count'))

_decrement ==
  /\ _count' = Minus(_count, _step)
  /\ _updateView(_count')
  /\ counterEvents' = Append(counterEvents, CounterChanged(_count'))

\* a click on the button with id inc, which exists once connected
IncClick ==
  /\ connected
  /\ Len(clickLog) < MaxClicks
  /\ InRange(ExactPlus(_count, _step))
  /\ _increment
  /\ clickLog' = Append(clickLog, [op |-> "inc", step |-> _step])
  /\ UNCHANGED <<_step, connected>>

\* a click on the button with id dec
DecClick ==
  /\ connected
  /\ Len(clickLog) < MaxClicks
  /\ InRange(ExactPlus(_count, Minus(Num(0), _step)))
  /\ _decrement
  /\ clickLog' = Append(clickLog, [op |-> "dec", step |-> _step])
  /\ UNCHANGED <<_step, connected>>

CounterNext ==
  \/ \E name \in observedAttributes, v \in StepAttributes :
       attributeChangedCallback(name, v) /\ UNCHANGED outsideCounter
  \/ connectedCallback /\ UNCHANGED outsideCounter
  \/ IncClick /\ UNCHANGED outsideCounter
  \/ DecClick /\ UNCHANGED outsideCounter

SpecCounter == Init /\ [][CounterNext]_vars

\* ===================================================================
\* Properties of the list state machine
\* ===================================================================

\* the step that completes an in-flight fetch whose outcome is o
Completes(o) ==
  \E i \in DOMAIN inflight : inflight[i] = o /\ inflight' = RemoveAt(inflight, i)

\* C1: the component starts idle with no fetch issued; the mount (the one
\* step that sets mounted) goes from idle to loading and issues exactly one
\* getUsers call; a mounted component is never mounted again.
C1_MountTriggersOneLoad ==
  /\ [](~mounted => (_status = "idle" /\ fetchCalls = 0 /\ inflight = <<>>))
  /\ [][(~mounted /\ mounted') =>
          /\ _status = "idle"
          /\ _status' = "loading"
          /\ fetchCalls' = fetchCalls + 1
          /\ Len(inflight') = Len(inflight) + 1]_vars
  /\ [][mounted => mounted']_vars

C1_Witness ==
  mounted /\ _status = "loading" /\ fetchCalls = 1 /\ Len(inflight) = 1

\* C2: every change of status follows one of the four edges idle->loading,
\* loading->success, loading->error, error->loading.
StatusEdges ==
  { <<"idle", "loading">>, <<"loading", "success">>, <<"loading", "error">>,
    <<"error", "loading">> }

C2_StatusEdges ==
  [][_status' # _status => <<_status, _status'>> \in StatusEdges]_vars

C2_Witness ==
  /\ _status = "success"
  /\ retries >= 1
  /\ _filter # <<>>
  /\ limit # DefaultLimit
  /\ emitted # <<>>

\* C3: a step that completes a fetch resolved with an ok response whose body
\* parses to the sequence d goes from loading to success and makes the
\* dataset exactly d.
C3_SuccessReplacesDataset ==
  [][\A d \in Datasets :
       Completes(Response(TRUE, "OK", TRUE, d)) =>
         /\ _status = "loading"
         /\ _status' = "success"
         /\ _users' = d]_vars

C3_Witness ==
  _status = "success" /\ Len(_users) = MaxUsers /\ limit < Len(_users)

\* C4: a step that completes a failed fetch (a non-ok response, or a
\* rejected fetch) goes from loading to error, sets the error message to
\* the failure's message and leaves the dataset as it was.
C4_FailureCaught ==
  [][\A o \in FetchOutcomes :
       (Completes(o) /\ (o.kind = "reject" \/ (o.kind = "response" /\ ~o.ok))) =>
         /\ _status = "loading"
         /\ _status' = "error"
         /\ _error' = (IF o.kind = "reject" THEN o.message ELSE o.statusText)
         /\ _users' = _users]_vars

C4_Witness ==
  _status = "error" /\ _error = "Failed to fetch" /\ fetchCalls = 2

\* C5: a fetch resolved with a non-ok response takes the list from loading
\* straight to error (never to success), with the response's status text as
\* the error message.
C5_HttpFailure ==
  [][\A o \in FetchOutcomes :
       (Completes(o) /\ o.kind = "response" /\ ~o.ok) =>
         /\ _status' # "success"
         /\ _status' = "error"
         /\ _error' = o.statusText]_vars

C5_Witness ==
  _status = "error" /\ _error = "Internal Server Error" /\ fetchCalls = 1

\* C6: the Retry button is rendered only in status error, and a retry step
\* goes from error to loading and issues exactly one new fetch.
C6_RetryOnlyFromError ==
  /\ [](render.retry => _status = "error")
  /\ [][retries' # retries =>
          /\ retries' = retries + 1
          /\ _status = "error"
          /\ _status' = "loading"
          /\ fetchCalls' = fetchCalls + 1
          /\ Len(inflight') = Len(inflight) + 1]_vars

C6_Witness ==
  _status = "loading" /\ retries = 2 /\ fetchCalls = 3

\* C7: from status error, every step that is not a retry keeps status error
\* and issues no fetch; the fetches issued are none before the mount and
\* one plus the number of retries after it.
C7_NoAutomaticRetry ==
  /\ [][(_status = "error" /\ retries' = retries) =>
          (_status' = "error" /\ fetchCalls' = fetchCalls)]_vars
  /\ [](fetchCalls = (IF mounted THEN 1 + retries ELSE 0))

C7_Witness ==
  _status = "error" /\ retries = 1 /\ limit # DefaultLimit

\* C8: at most one fetch is in flight, and only while status is loading.
C8_OneOutstandingFetch ==
  /\ Len(inflight) <= 1
  /\ (inflight # <<>> => _status = "loading")

C8_Witness ==
  Len(inflight) = 1 /\ retries >= 1

\* C9: while status is loading and the fetch in flight never settles, every
\* step leaves status loading and leaves only never-settling fetches in
\* flight.
NeverResolves ==
  inflight # <<>> /\ \A i \in DOMAIN inflight : inflight[i].kind = "never"

C9_PendingStaysLoading ==
  [][(_status = "loading" /\ NeverResolves) =>
       (_status' = "loading" /\ NeverResolves')]_vars

C9_Witness ==
  _status = "loading" /\ NeverResolves /\ limit # DefaultLimit

\* C10: with a non-empty filter, every item of the derived view has a name
\* in which the filter occurs at some offset, letters compared without
\* regard to case.
SameLetter(c, d) == c = d \/ {c, d} = {"A", "a"}

ContainsIgnoringCase(name, filter) ==
  \E k \in 0..(Len(name) - Len(filter)) :
    \A j \in 1..Len(filter) : SameLetter(name[k + j], filter[j])

C10_ViewMatchesFilter ==
  _filter # <<>> =>
    \A k \in DOMAIN _filteredUsers :
      ContainsIgnoringCase(_filteredUsers[k].name, _filter)

C10_Witness ==
  /\ _status = "success"
  /\ _filter = <<"a", "b">>
  /\ Len(_users) = 2
  /\ Len(_filteredUsers) = 1
  /\ _filteredUsers[1].name = <<"A", "b">>

\* C11: the derived view never has more entries than the limit.
C11_ViewWithinLimit ==
  Len(_filteredUsers) <= limit

C11_Witness ==
  /\ _status = "success"
  /\ _filter # <<>>
  /\ limit = 1
  /\ Len(_filteredUsers) = 1
  /\ Len(SelectSeq(_users, LAMBDA u : ContainsIgnoringCase(u.name, _filter))) = 2

\* C12: the derived view is the dataset's entries that match the filter (all
\* of them when the filter is empty), in the dataset's order, cut to the
\* first `limit` of them: its k-th entry is the dataset's k-th matching entry.
MatchingPositions(users, filter) ==
  { i \in DOMAIN users :
      filter = <<>> \/ ContainsIgnoringCase(users[i].name, filter) }

\* the k-th smallest member of the set of positions M
KthPosition(M, k) ==
  CHOOSE i \in M : Cardinality({ j \in M : j < i }) = k - 1

C12_FilterThenTruncate ==
  LET M == MatchingPositions(_users, _filter)
      n == IF limit < Cardinality(M) THEN limit ELSE Cardinality(M)
  IN  /\ Len(_filteredUsers) = n
      /\ \A k \in 1..n : _filteredUsers[k] = _users[KthPosition(M, k)]

C12_Witness ==
  /\ _status = "success"
  /\ _filter = <<"a">>
  /\ limit = 1
  /\ Len(_users) = 2
  /\ _users[1].name = <<"b">>
  /\ _filteredUsers = <<_users[2]>>

\* C13: in status success, a step that changes the filter or the limit
\* issues no fetch and leaves the status as it is.
C13_FilterLimitNoFetch ==
  [][(_status = "success" /\ (_filter' # _filter \/ limit' # limit)) =>
       /\ fetchCalls' = fetchCalls
       /\ inflight' = inflight
       /\ _status' = _status]_vars

C13_Witness ==
  /\ _status = "success"
  /\ _filter # <<>>
  /\ limit # DefaultLimit
  /\ fetchCalls = 1
  /\ _users # <<>>

\* C14: only the completion of a load changes the stored dataset: every
\* other step (a read of the derived view, a filter change, a limit change,
\* a selection, the start of a load) leaves its entries and their order as
\* they were.
C14_DatasetNotMutated ==
  [][Len(inflight') >= Len(inflight) => _users' = _users]_vars

C14_Witness ==
  /\ _status = "success"
  /\ Len(_users) = 2
  /\ _filter # <<>>
  /\ limit = 1
  /\ _filteredUsers # _users

\* C15: a click on the k-th rendered card appends exactly one
\* ds-user-selected event whose detail.user is the k-th entry of the derived
\* view, and leaves status, dataset, filter and limit unchanged; nothing
\* else dispatches an event.
C15_SelectionEmitsUser ==
  [][(emitted' # emitted \/ clicks' # clicks) =>
       /\ _status = "success"
       /\ \E k \in DOMAIN _filteredUsers :
            /\ clicks' = Append(clicks, k)
            /\ emitted' = Append(emitted,
                 [type |-> "ds-user-selected",
                  detail |-> [user |-> _filteredUsers[k]]])
       /\ UNCHANGED <<_status, _users, _filter, limit>>]_vars

C15_Witness ==
  /\ clicks = <<2>>
  /\ Len(emitted) = 1
  /\ emitted[1].detail.user = _users[2]
  /\ _users[1] # _users[2]

\* ===================================================================
\* Properties of the store
\* ===================================================================

\* the step is a call of setState (by a user of the store or by a callback)
SetStateCalled == Len(applied') = Len(applied) + 1

\* the step invokes a subscriber
CallbackPushed ==
  Len(stack') = Len(stack) + 1 /\ stack'[Len(stack')].op = "callback"

\* the step is the return of the innermost setState call in progress
SetStateReturns ==
  /\ stack # <<>>
  /\ Top.op = "setState"
  /\ stack' = Pop(stack)

\* C16: a setState(partial) call gives every field of partial partial's
\* value and keeps every other field; at any time getState() is, field by
\* field, the value of the last setState call that named the field, and
\* the initial {selectedUser: null} for a field no call named.
LastNaming(f) ==
  LET I == { i \in DOMAIN applied : f \in DOMAIN applied[i] }
  IN  IF I = {} THEN 0 ELSE CHOOSE i \in I : \A j \in I : j <= i

FoldOfMerges ==
  LET named == UNION { DOMAIN applied[i] : i \in DOMAIN applied }
  IN  [f \in named \cup DOMAIN InitialState |->
         IF LastNaming(f) = 0 THEN InitialState[f]
         ELSE applied[LastNaming(f)][f]]

C16_ShallowMerge ==
  /\ [](getState = FoldOfMerges)
  /\ [][SetStateCalled =>
          LET p == applied'[Len(applied')]
          IN  /\ DOMAIN _state' = DOMAIN _state \cup DOMAIN p
              /\ \A f \in DOMAIN p : _state'[f] = p[f]
              /\ \A f \in DOMAIN _state \ DOMAIN p : _state'[f] = _state[f]]_vars

C16_Witness ==
  /\ stack = <<>>
  /\ Len(applied) = 2
  /\ _state = [selectedUser |-> "alice", theme |-> "light"]

\* what a setState call has invoked when it invoked each listener of the
\* time of the call once, in order, with the state it merged
OncePerListener(frame) ==
  [i \in DOMAIN frame.atCall |-> <<frame.atCall[i], frame.merged>>]

\* C17 as stated: when a setState call returns, it has invoked every
\* subscriber registered at the time of the call exactly once, each with
\* the state that call merged.
C17_NotifiesAllWithMerged ==
  [][SetStateReturns => Top.invoked = OncePerListener(Top)]_vars

\* C17 as amended: every setState call, also one whose partial changes no
\* field, starts a notification pass before it returns; every invocation
\* passes the state current at that moment to a subscriber registered at
\* that moment; and a call during which no callback has called the store
\* returns having invoked every subscriber registered at the time of the
\* call exactly once, with the state it merged.
C17_NotifiesAllUnlessReentered ==
  [][/\ SetStateCalled =>
          /\ Len(stack') = Len(stack) + 1
          /\ stack'[Len(stack')].op = "setState"
          /\ stack'[Len(stack')].k = 1
     /\ CallbackPushed =>
          /\ stack'[Len(stack')].arg = _state
          /\ stack'[Len(stack')].fn \in Range(_listeners)
     /\ SetStateReturns =>
          /\ Top.k > Len(_listeners)
          /\ Top.clean => Top.invoked = OncePerListener(Top)]_vars

C17_Witness ==
  /\ Len(stack) = 1
  /\ Top.op = "setState"
  /\ Top.clean
  /\ Top.k > Len(_listeners)
  /\ Len(Top.invoked) = 2
  /\ Top.invoked = OncePerListener(Top)
  /\ applied[Len(applied)] = NoFields

\* C18: calling the function subscribe(fn) returned leaves the set without
\* fn and with every other subscriber, in the same order; calling it again
\* then changes nothing; it changes neither the state nor what is running;
\* and setState only ever invokes subscribers that are in the set.
SameOrder(ls, ms) ==
  \A i, j \in DOMAIN ms :
    i < j => PositionOf(ls, ms[i]) < PositionOf(ls, ms[j])

RemovesExactly(ls, ms, fn) ==
  /\ Range(ms) = Range(ls) \ {fn}
  /\ Len(ms) = Cardinality(Range(ms))
  /\ SameOrder(ls, ms)

C18_UnsubscribeExactAndIdempotent ==
  /\ [](\A h \in DOMAIN handles :
          LET once == SetDelete(_listeners, handles[h])
          IN  /\ RemovesExactly(_listeners, once, handles[h])
              /\ SetDelete(once, handles[h]) = once)
  /\ [][(stack = <<>> /\ _listeners' # _listeners /\ handles' = handles) =>
          /\ \E h \in DOMAIN handles :
               RemovesExactly(_listeners, _listeners', handles[h])
          /\ _state' = _state
          /\ stack' = stack]_vars
  /\ [][CallbackPushed => stack'[Len(stack')].fn \in Range(_listeners')]_vars

C18_Witness ==
  /\ stack = <<>>
  /\ Len(handles) = 2
  /\ handles[1] # handles[2]
  /\ handles[1] \notin Range(_listeners)
  /\ handles[2] \in Range(_listeners)
  /\ applied # <<>>

\* C19: the state changes only in a step that is a setState call; a step
\* that changes the set of subscribers (subscribe, an unsubscribe function)
\* changes no state and invokes nobody; subscribers are invoked only by the
\* forEach of a setState call; and the steps of setState itself (the merge,
\* an invocation, the return) leave the set of subscribers as it is.
C19_OnlySetStateMutates ==
  [][/\ _state' # _state => SetStateCalled
     /\ _listeners' # _listeners =>
          (_state' = _state /\ applied' = applied /\ ~CallbackPushed)
     /\ CallbackPushed => (stack # <<>> /\ Top.op = "setState")
     /\ (SetStateCalled \/ CallbackPushed \/ SetStateReturns) =>
          _listeners' = _listeners]_vars

C19_Witness ==
  /\ stack = <<>>
  /\ Len(handles) = 2
  /\ Len(_listeners) = 1
  /\ Len(applied) = 2
  /\ _state # InitialState

\* C20: a setState call made by a callback starts a new notification pass
\* on top of the calls in progress, which all stay in progress; and while
\* a callback that calls setState unconditionally is in progress, no step
\* ends it: the calls under it never return.
LoopActive ==
  \E i \in DOMAIN stack : stack[i].op = "callback" /\ stack[i].fn = "loop"

C20_ReentrantSetStateRecurses ==
  /\ [][(stack # <<>> /\ SetStateCalled) =>
          /\ Top.op = "callback"
          /\ Len(stack') = Len(stack) + 1
          /\ stack'[Len(stack')].op = "setState"
          /\ stack'[Len(stack')].k = 1
          /\ \A i \in DOMAIN stack :
               stack'[i].op = stack[i].op /\ stack'[i].fn = stack[i].fn]_vars
  /\ [][LoopActive => LoopActive']_vars

C20_Witness ==
  /\ Depth(stack) = 2
  /\ stack[2].op = "callback"
  /\ stack[2].fn = "loop"
  /\ stack[Len(stack)].op = "setState"

\* ===================================================================
\* Properties of the fetch client
\* ===================================================================

\* C21: every client call issues exactly one GET, to the URL of its
\* operation; with a success status and a body that parses it returns the
\* parsed body; with a failure status it fails with the status text as the
\* message; a rejected fetch fails with fetch's own error; and in every
\* failure case (these two, and a body that does not parse) the promise is
\* rejected with an error that has a message, never fulfilled.
FailureCase(o) ==
  \/ o.kind = "reject"
  \/ o.kind = "response" /\ (~o.ok \/ ~o.parses)

C21_ClientOutcomes ==
  /\ Len(gets) = Len(settlements)
  /\ \A i \in DOMAIN settlements :
       LET c == settlements[i]
           o == c.outcome
           r == c.result
       IN  /\ gets[i] = IF c.op = "getUsers" THEN UsersUrl ELSE UserUrl(c.id)
           /\ (o.kind = "response" /\ o.ok /\ o.parses) =>
                 (r.settled = "fulfilled" /\ r.value = o.body)
           /\ (o.kind = "response" /\ ~o.ok) =>
                 (r.settled = "rejected" /\ r.message = o.statusText)
           /\ o.kind = "reject" =>
                 (r.settled = "rejected" /\ r.message = o.message)
           /\ FailureCase(o) =>
                 (r.settled = "rejected" /\ r.message \in STRING)
           /\ o.kind = "never" => r.settled = "pending"

C21_Witness ==
  /\ Len(settlements) = 2
  /\ settlements[1].op = "getUserById"
  /\ settlements[1].outcome.kind = "response"
  /\ ~settlements[1].outcome.ok
  /\ settlements[1].result.message = "Not Found"
  /\ settlements[2].op = "getUsers"
  /\ settlements[2].result.settled = "fulfilled"
  /\ Len(settlements[2].result.value) = 2

\* ===================================================================
\* Properties of the list with its children
\* ===================================================================

\* C22: whenever the status of a list that is in the document is error,
\* the user sees the alert with the error message and the Retry button.
C22_ErrorShowsAlertAndRetry ==
  (_status = "error" /\ ~tornDown) =>
    /\ render.alert # <<>>
    /\ render.retry
    /\ timer # "unset"
    /\ DsAlert_render # Nothing
    /\ message = <<"Error loading users: ", _error>>

\* C23: in loading the list shows the loading message, no cards and no
\* filter input; in success it shows the filter input and one card per
\* entry of the derived view, in its order; in every other status it shows
\* neither cards nor the filter input.
C23_RenderByStatus ==
  /\ _status = "loading" =>
       /\ render.p = "Loading users..."
       /\ render.cards = <<>>
       /\ ~render.filterInput
  /\ _status = "success" =>
       /\ render.filterInput
       /\ Len(render.cards) = Len(_filteredUsers)
       /\ \A k \in DOMAIN _filteredUsers : render.cards[k] = _filteredUsers[k]
  /\ _status # "success" => (render.cards = <<>> /\ ~render.filterInput)

C23_Witness ==
  /\ _status = "success"
  /\ _filter # <<>>
  /\ Len(_users) = 2
  /\ Len(render.cards) = 1
  /\ render.cards[1] = _users[2]

\* C24: removing the list from the document while a fetch is in flight
\* leaves the fetch in flight and the list's state as it is; and from then
\* on, also when the fetch completes, no fetch is issued and no
\* ds-user-selected event is dispatched.
C24_TeardownMidFetch ==
  [][/\ (~tornDown /\ tornDown') =>
          /\ inflight # <<>>
          /\ inflight' = inflight
          /\ UNCHANGED listVars
     /\ tornDown =>
          /\ tornDown'
          /\ fetchCalls' = fetchCalls
          /\ emitted' = emitted
          /\ Len(inflight') <= Len(inflight)]_vars

C24_Witness ==
  /\ tornDown
  /\ inflight = <<>>
  /\ _status = "error"
  /\ fetchCalls = 1

\* ===================================================================
\* Properties of the alert
\* ===================================================================

\* C25: an alert on which _close has not run is visible; a visible alert
\* renders its message in an element with the classes alert and its type;
\* an alert that is not visible renders nothing; every _close leaves it
\* rendering nothing; and an alert that is not visible never becomes
\* visible again.
C25_ClosedStaysClosed ==
  /\ [](closeEvents = <<>> => _visible)
  /\ [](_visible =>
          /\ DsAlert_render # Nothing
          /\ DsAlert_render[1].class = <<"alert", type>>
          /\ DsAlert_render[1].text[3] = message)
  /\ [](~_visible => DsAlert_render = Nothing)
  /\ [][closeEvents' # closeEvents => DsAlert_render' = Nothing]_vars
  /\ [][~_visible => ~_visible']_vars

C25_Witness ==
  /\ ~_visible
  /\ timer = "fired"
  /\ Len(closeEvents) = 2
  /\ type = "warning"
  /\ message = <<"Careful">>

\* C26: a step that closes the alert (visible before, not after), by the
\* button, the timer or a call of _close, dispatches exactly one event, of
\* type ds-close; and every event the alert dispatches carries no payload.
C26_CloseEmitsEvent ==
  /\ [](\A i \in DOMAIN closeEvents :
          closeEvents[i].type = "ds-close" /\ closeEvents[i].detail = Null)
  /\ [][(_visible /\ ~_visible') =>
          /\ Len(closeEvents') = Len(closeEvents) + 1
          /\ SubSeq(closeEvents', 1, Len(closeEvents)) = closeEvents
          /\ closeEvents'[Len(closeEvents')].type = "ds-close"
          /\ closeEvents'[Len(closeEvents')].detail = Null]_vars

C26_Witness ==
  /\ ~_visible
  /\ timer = "fired"
  /\ Len(closeEvents) = 1

\* C27: the timer is started once, by the first update, and fires at most
\* once; and an alert that has had its first update is eventually not
\* visible, also when nobody clicks its close button.
C27_AutoCloses ==
  /\ [][timer' # timer =>
          \/ timer = "unset" /\ timer' = "pending"
          \/ timer = "pending" /\ timer' = "fired"]_vars
  /\ (timer # "unset") ~> ~_visible

C27_Witness ==
  /\ timer = "fired"
  /\ ~_visible
  /\ Len(closeEvents) = 1
  /\ type = "info"

\* ===================================================================
\* Properties of the button, the shell and the store's subscriber set
\* ===================================================================

\* C28: a click delivered to the handler while disabled is false emits
\* exactly one ds-click; a click while disabled is true emits none, whether
\* the user makes it, code calls click() or code calls _handleClick(); and a
\* ds-click is never emitted in any other step.
C28_ClickOnlyWhenEnabled ==
  /\ [](Len(dsClicks) =
          Cardinality({ i \in DOMAIN presses :
                          ~presses[i].disabled /\ presses[i].delivered }))
  /\ [][presses' # presses =>
          LET p == presses'[Len(presses')]
          IN  /\ p.disabled = disabled
              /\ p.disabled => dsClicks' = dsClicks
              /\ (~p.disabled /\ p.delivered) =>
                   dsClicks' = Append(dsClicks, ClickEvent)]_vars
  /\ [][dsClicks' # dsClicks => (~disabled /\ presses' # presses)]_vars

C28_Witness ==
  /\ Len(presses) = 3
  /\ presses[1].by = "_handleClick()" /\ presses[1].disabled
  /\ presses[2].by = "click()" /\ presses[2].disabled /\ presses[2].delivered
  /\ presses[3].by = "user" /\ ~presses[3].disabled
  /\ Len(dsClicks) = 1

TimesInvoked(frame, fn) ==
  Cardinality({ i \in DOMAIN frame.invoked : frame.invoked[i][1] = fn })

C30_NoDuplicateSubscribers ==
  /\ [](Len(_listeners) = Cardinality(Range(_listeners)))
  /\ [][(Len(handles') = Len(handles) + 1
           /\ handles'[Len(handles')] \in Range(_listeners)) =>
          _listeners' = _listeners]_vars
  /\ [][(SetStateReturns /\ Top.clean) =>
          \A fn \in Callbacks : TimesInvoked(Top, fn) <= 1]_vars

C30_Witness ==
  /\ handles = <<"obsA", "obsA">>
  /\ _listeners = <<"obsA">>
  /\ Len(stack) = 1
  /\ Top.op = "setState"
  /\ Top.k > Len(_listeners)
  /\ TimesInvoked(Top, "obsA") = 1

\* ------------------------------------------------- one handle, one callback
\* C31 as stated: an unsubscribe function affects only the registration of
\* its own subscribe call, so a callback that callers subscribed (obsB apart,
\* which callbacks subscribe and unsubscribe too) stays registered while a
\* handle for it has not been called.
C31_HandleRemovesOwnRegistration ==
  \A h \in DOMAIN handles :
    (h \notin called /\ handles[h] # "obsB") => handles[h] \in Range(_listeners)

\* C31, amended: an unsubscribe function removes the callback it was made
\* for, whichever subscribe call registered it.  The first call of a handle
\* removes exactly its callback, also when a later subscribe call registered
\* it; a repeated call of a handle that changes the set removes exactly its
\* callback, registered again in between; and every subscribe call leaves its
\* callback registered, whatever handles were called before.
C31_HandleRemovesCallback ==
  /\ [][called' # called =>
          \E h \in called' \ called :
            /\ RemovesExactly(_listeners, _listeners', handles[h])
            /\ handles[h] \notin Range(_listeners')]_vars
  /\ [][(stack = <<>> /\ stack' = <<>> /\ called' = called
           /\ handles' = handles /\ _listeners' # _listeners) =>
          \E h \in called :
            /\ handles[h] \in Range(_listeners)
            /\ RemovesExactly(_listeners, _listeners', handles[h])]_vars
  /\ [][Len(handles') > Len(handles) =>
          handles'[Len(handles')] \in Range(_listeners')]_vars

\* the first handle for obsA, called a second time after obsA was subscribed
\* again, has removed it: the later handle was never called
C31_Witness ==
  /\ handles = <<"obsA", "obsA">>
  /\ called = {1}
  /\ "obsA" \notin Range(_listeners)
  /\ stack = <<>>

\* ------------------------------------- subscribing during a notification
\* the subscribers a setState call has invoked so far, in order
InvokedNames(frame) == [i \in DOMAIN frame.invoked |-> frame.invoked[i][1]]

\* C32 as stated: whatever the callbacks subscribe or unsubscribe during the
\* pass, a setState call returns having invoked exactly the subscribers that
\* were registered when it was called.
C32_InvokesSnapshot ==
  [][SetStateReturns => InvokedNames(Top) = Top.atCall]_vars

\* C32, amended: setState iterates the live set.  Every invocation goes to
\* a subscriber that is registered at the moment of the invocation, so a
\* subscriber removed by an earlier callback before its turn is not invoked;
\* and when setState returns, every subscriber registered at that moment has
\* been invoked in the pass, so a subscriber added during the pass is invoked
\* in that same pass, and every subscriber of the time of the call that was
\* not invoked is one that has been removed.
C32_InvokesLiveSet ==
  /\ [][CallbackPushed =>
          /\ Top.op = "setState"
          /\ stack'[Len(stack')].fn \in Range(_listeners)
          /\ stack'[Len(stack')].fn = _listeners[Top.k]]_vars
  /\ [][SetStateReturns =>
          /\ Range(_listeners) \subseteq Range(InvokedNames(Top))
          /\ Range(Top.atCall) \ Range(InvokedNames(Top))
               \subseteq Range(Top.atCall) \ Range(_listeners)]_vars

\* drop has removed obsB before its turn, and the call is about to return
\* without having invoked obsB
C32_Witness ==
  /\ Len(stack) = 1
  /\ Top.op = "setState"
  /\ Top.atCall = <<"drop", "obsB">>
  /\ Top.k > Len(_listeners)
  /\ InvokedNames(Top) = <<"drop">>

\* ------------------------------------------- the state a subscriber is given
\* C33: every invocation hands the subscriber the state getState() returns
\* at that moment, also when the invoking setState call is an outer one and
\* a callback has called setState since: a subscriber that has just been
\* invoked holds the current state, which is the merge of all the partials
\* so far, and never the older state its setState call merged.
C33_InvokedWithCurrentState ==
  /\ [](stack # <<>> /\ Top.op = "callback" /\ ~Top.ran =>
          /\ Top.arg = getState
          /\ Top.arg = FoldOfMerges)
  /\ [][CallbackPushed =>
          /\ stack'[Len(stack')].arg = getState'
          /\ getState' = getState]_vars

\* an outer setState call goes on after a callback's nested setState: obsA
\* is handed the state with the theme, which is not what the outer call
\* merged
C33_Witness ==
  /\ Len(stack) = 2
  /\ stack[1].op = "setState"
  /\ stack[1].merged # getState
  /\ Top.op = "callback"
  /\ Top.fn = "obsA"
  /\ ~Top.ran
  /\ Top.arg = getState
  /\ "theme" \in DOMAIN Top.arg
  /\ "theme" \notin DOMAIN stack[1].merged

\* ------------------------------------------------------ a subscriber throws
\* the step is a subscriber throwing
SubscriberThrows ==
  /\ stack # <<>>
  /\ Top.op = "callback"
  /\ ~Top.ran
  /\ Body(Top.fn, Top.arg).call = "throw"
  /\ stack' # stack

\* C34: when a subscriber throws during a notification, the error goes to
\* the caller of setState, abandoning every setState call in progress; the
\* state stays the merged one; the subscribers after the thrower in
\* registration order are not invoked for that update, the pass having
\* stopped at the thrower; and the set of subscribers is as it was.
C34_ThrowPropagates ==
  /\ [][SubscriberThrows =>
          /\ Len(stack') = 1
          /\ stack'[1].op = "thrown"
          /\ stack'[1].fn = Top.fn
          /\ getState' = getState
          /\ applied' = applied
          /\ _listeners' = _listeners]_vars
  /\ [](stack # <<>> /\ Top.op = "thrown" =>
          /\ getState = FoldOfMerges
          /\ Top.clean => getState = Top.merged
          /\ Top.k = PositionOf(_listeners, Top.fn) + 1
          /\ Top.clean =>
               InvokedNames(Top) = SubSeq(_listeners, 1, Top.k - 1)
          /\ InvokedNames(Top)[Len(Top.invoked)] = Top.fn)
  /\ [][(stack # <<>> /\ Top.op = "thrown") =>
          /\ stack' = <<>>
          /\ getState' = getState
          /\ _listeners' = _listeners]_vars

\* boom, registered before obsA, has thrown under setState({selectedUser:
\* "alice"}): the state is merged and obsA has not been invoked
C34_Witness ==
  /\ _listeners = <<"boom", "obsA">>
  /\ Len(stack) = 1
  /\ Top.op = "thrown"
  /\ Top.clean
  /\ InvokedNames(Top) = <<"boom">>
  /\ getState = [selectedUser |-> "alice"]

\* ------------------------------------------------------- after a success
\* C35: once a load has succeeded, no step changes the status or the
\* dataset: whatever is typed in the filter, whatever limit is set, whatever
\* card is clicked and whenever the view is rendered, _status stays success
\* and _users stays the array the load put there, in the same order.
C35_SuccessIsFinal ==
  [][_status = "success" =>
       /\ _status' = "success"
       /\ _users' = _users
       /\ inflight' = <<>>
       /\ fetchCalls' = fetchCalls]_vars

\* a loaded list of two users, not in id order, after a filter edit, a limit
\* change and a selection
C35_Witness ==
  /\ _status = "success"
  /\ Len(_users) = 2
  /\ _users[1].id = 2
  /\ _users[2].id = 1
  /\ _filter # <<>>
  /\ limit # DefaultLimit
  /\ emitted # <<>>

\* -------------------------------------------------------- the error message
\* C36 as stated: _error is non-null exactly in the states whose status is
\* error.
C36_ErrorExactlyInError == (_error # Null) <=> (_status = "error")

\* C36, amended: _error is null until the first failed load and non-null in
\* every error state; it is assigned only by a load that fails, which also
\* sets status error; and it is never reset, so the loading and success
\* states that follow a Retry still hold the message of the last failure.
C36_ErrorKeptAfterFailure ==
  /\ [](_status = "error" => _error # Null)
  /\ [](_error = Null <=> (retries = 0 /\ _status # "error"))
  /\ [][_error' # _error =>
          /\ _status = "loading"
          /\ _status' = "error"
          /\ _error' # Null]_vars
  /\ [][(_status = "error" /\ _status' # "error") =>
          /\ _status' = "loading"
          /\ _error' = _error]_vars

\* a success reached by retrying after a failure: the message of the failure
\* is still there
C36_Witness ==
  /\ _status = "success"
  /\ retries = 1
  /\ _error = "Failed to fetch"

\* ------------------------------------------------------ ds-close, how often
\* C37: an alert element dispatches ds-close at most once in its lifetime:
\* once it has been closed, by the button or by the timer, it dispatches no
\* further ds-close.
C37_ClosesAtMostOnce ==
  /\ Len(closeEvents) <= 1
  /\ (timer = "fired" /\ ~_visible) => Len(closeEvents) = 1

\* -------------------------------------------------- the counter's arithmetic
\* the clicks of log replayed from 0 with op, one + or - each, in order
RECURSIVE Replay(_, _, _)
Replay(log, add(_, _), start) ==
  IF log = <<>> THEN start
  ELSE LET before == Replay(SubSeq(log, 1, Len(log) - 1), add, start)
           last == log[Len(log)]
       IN  IF last.op = "inc" THEN add(before, last.step)
           ELSE add(before, Minus(Num(0), last.step))

\* the sum of the steps of the increments minus that of the decrements
SumOfSteps(log) == Replay(log, ExactPlus, Num(0))

\* the step is a click on one of the two buttons
Clicked == Len(clickLog') = Len(clickLog) + 1

EmitsOneWithCount ==
  [][Clicked =>
       /\ counterEvents' = Append(counterEvents, CounterChanged(_count'))
       /\ countText' = <<_count'>>]_vars

\* C38 as stated: the counter starts at 0 with step 1; after any clicks and
\* step changes its count is the sum of the steps in force at the increments
\* minus the sum of those in force at the decrements; and every click emits
\* one counter-changed event carrying the count right after it.
C38_CountIsSumOfSteps ==
  /\ _count = Num(0) /\ _step = Num(1)
  /\ [](_count = SumOfSteps(clickLog))
  /\ EmitsOneWithCount

\* C38, amended: the count is the result of adding, for each increment, and
\* subtracting, for each decrement, the step in force at the click, in click
\* order and in double arithmetic: NaN from the first click made with a
\* non-numeric step on, and equal to the sum of the increments' steps minus
\* the sum of the decrements' steps as long as the steps are integers and
\* the count has stayed within +-2^53.  The rest as stated.
C38_CountIsReplayOfClicks ==
  /\ _count = Num(0) /\ _step = Num(1)
  /\ [](_count = Replay(clickLog, Plus, Num(0)))
  /\ []((\E i \in DOMAIN clickLog : clickLog[i].step.nan) => _count.nan)
  /\ []((\A i \in DOMAIN clickLog :
            /\ IsSafe(clickLog[i].step)
            /\ IsSafe(SumOfSteps(SubSeq(clickLog, 1, i))))
         => _count = SumOfSteps(clickLog))
  /\ [](Len(counterEvents) = Len(clickLog))
  /\ [][Clicked =>
          /\ counterEvents' = Append(counterEvents, CounterChanged(_count'))
          /\ countText' = <<_count'>>
          /\ _step' = _step]_vars

\* after an increment by 1, an increment by 2^53 and a decrement by 2 the
\* count is 2^53 - 2, and the sum of the steps would be 2^53 - 1
C38_Witness ==
  /\ Len(clickLog) = 3
  /\ clickLog[3].op = "dec"
  /\ clickLog[3].step = Num(2)
  /\ _count = [nan |-> FALSE, big |-> 1, small |-> -2]
  /\ SumOfSteps(clickLog) = [nan |-> FALSE, big |-> 1, small |-> -1]
  /\ counterEvents[3].detail.value = _count

====
